---- MODULE Spec2Model ----
(***************************************************************************)
(* Model of app.py, the soil-moisture dashboard.  The script is re-run     *)
(* from top to bottom on every user interaction; one run is a "render".    *)
(* The state is the widget state kept by the page framework (map_data,     *)
(* parameter_label), the wall clock, the script's position (pc), its       *)
(* module-level names (data, df, forecast), the elements emitted to the    *)
(* page so far, and the GET requests issued so far in this render.          *)
(*                                                                         *)
(* Conventions: None / NaN is the empty tuple <<>> and a present value v   *)
(* is <<v>>.  A float coordinate is kept in tenths of a degree.  A date    *)
(* string "YYYYMMDD" is the tuple of its eight digits; a parsed date is    *)
(* its proleptic Gregorian ordinal.                                        *)
(***************************************************************************)
EXTENDS Integers, Sequences, FiniteSets, TLC

VARIABLES map_data, parameter_label, now, pc, page, gets, response, data, df,
          forecast, exc

vars == <<map_data, parameter_label, now, pc, page, gets, response, data, df,
          forecast, exc>>

None == <<>>
NaN == <<>>

(* ---------------------------------------------------------------- bounds *)
NumDates == 3

(* ----------------------------------------------------- program constants *)
NASA_POWER_API == "https://power.larc.nasa.gov/api/temporal/daily/point"

parameter_labels ==
  [c \in {"GWETTOP", "GWETROOT", "GWETPROF"} |->
     CASE c = "GWETTOP" -> "0 - 5 cm"
       [] c = "GWETROOT" -> "0 - 100 cm"
       [] c = "GWETPROF" -> "0 to bedrock"]

label_to_parameter ==
  [l \in {parameter_labels[c] : c \in DOMAIN parameter_labels} |->
     CHOOSE c \in DOMAIN parameter_labels : parameter_labels[c] = l]

Codes == DOMAIN parameter_labels
Labels == DOMAIN label_to_parameter

start_date == "19810101"
HTTP_OK == 200
sentinel == -999
periods == 365
tail_rows == 365

MSG_NO_PARAMETER == "No data available for the specified soil-level parameter."
MSG_NO_AREA == "It appears the selected area may not contain soil moisture data. Could you please verify the location or select a different area for analysis?"
MSG_SUCCESS == "Data fetched successfully! Performing analysis..."
MSG_PROMPT == "Click on the map to select a location for analysis."

(* ------------------------------------------------------ input universes *)
\* date strings the data service may use as keys, as digit tuples
AllDateKeys ==
  << <<1,9,8,1,0,1,0,1>>, <<1,9,8,1,0,1,0,2>>, <<2,0,0,0,0,2,2,8>>,
     <<2,0,0,0,0,2,2,9>>, <<2,0,0,0,0,3,0,1>>, <<2,0,2,3,1,2,3,1>> >>

DateKeys == {AllDateKeys[i] : i \in 1..NumDates}

\* values the service may put in a series: the sentinel and fractions 0, 1
RawValues == {sentinel, 0, 1}

\* clicks, in tenths of a degree: (-33.5, 151.2) and (0.0, -0.5)
Clicks == { [lat |-> -335, lng |-> 1512], [lat |-> 0, lng |-> -5] }

Clock == { [y |-> 2024, m |-> 12, d |-> 31], [y |-> 2025, m |-> 1, d |-> 5] }

Statuses == {200, 422}

\* properties.parameter of a response: at most two codes, all series over
\* the same set of dates
\* the values another series of the same response may repeat on every date
OtherValues == {sentinel, 0}

\* properties.parameter of a response: no code, one code with any series, or
\* two codes over the same dates, the second series being constant
ParamDicts ==
  {<<>>}
  \cup UNION { [{c} -> [D -> RawValues]] : <<c, D>> \in Codes \X (SUBSET DateKeys) }
  \cup { [c \in {cs[1], cs[2]} |-> IF c = cs[1] THEN f ELSE [k \in DOMAIN f |-> v]] :
           <<cs, f, v>> \in {cs \in Codes \X Codes : cs[1] # cs[2]}
                           \X (UNION {[D -> RawValues] : D \in SUBSET DateKeys})
                           \X OtherValues }

Body(kind, hasProperties, hasParameter, param) ==
  [kind |-> kind, hasProperties |-> hasProperties,
   hasParameter |-> hasParameter, parameter |-> param]

\* "invalid": not JSON; "scalar": null, a number or a boolean; "array": a
\* list (hasProperties: the string 'properties' is an element); "object"
Bodies ==
  { Body("invalid", FALSE, FALSE, <<>>), Body("scalar", FALSE, FALSE, <<>>),
    Body("array", FALSE, FALSE, <<>>), Body("array", TRUE, FALSE, <<>>),
    Body("object", FALSE, FALSE, <<>>), Body("object", TRUE, FALSE, <<>>) }
  \cup { Body("object", TRUE, TRUE, p) : p \in ParamDicts }

NoResponse == [raised |-> FALSE, status |-> 0, body |-> Body("invalid", FALSE, FALSE, <<>>)]

Responses ==
  { [raised |-> TRUE, status |-> 0, body |-> Body("invalid", FALSE, FALSE, <<>>)] }
  \cup { [raised |-> FALSE, status |-> s, body |-> b] : s \in Statuses, b \in Bodies }

(* ------------------------------------------------------------ formatting *)
Digit(n) == <<"0", "1", "2", "3", "4", "5", "6", "7", "8", "9">>[n + 1]

RECURSIVE IntStr(_)
IntStr(n) == IF n < 10 THEN Digit(n) ELSE IntStr(n \div 10) \o Digit(n % 10)

RECURSIVE ZeroPad(_, _)
ZeroPad(n, width) ==
  IF width = 0 THEN "" ELSE ZeroPad(n \div 10, width - 1) \o Digit(n % 10)

\* str() of a float given in tenths
FloatStr(t) ==
  LET a == IF t < 0 THEN -t ELSE t
  IN (IF t < 0 THEN "-" ELSE "") \o IntStr(a \div 10) \o "." \o Digit(a % 10)

\* datetime.strftime("%Y%m%d")
strftime(t) == ZeroPad(t.y, 4) \o ZeroPad(t.m, 2) \o ZeroPad(t.d, 2)

(* ------------------------------------------------------------- calendar *)
IsLeap(y) == (y % 4 = 0) /\ ((y % 100 # 0) \/ (y % 400 = 0))

DaysBeforeMonth(y, m) ==
  <<0, 31, 59, 90, 120, 151, 181, 212, 243, 273, 304, 334>>[m]
  + (IF m > 2 /\ IsLeap(y) THEN 1 ELSE 0)

toordinal(y, m, d) ==
  365 * (y - 1) + ((y - 1) \div 4) - ((y - 1) \div 100) + ((y - 1) \div 400)
  + DaysBeforeMonth(y, m) + d

\* pd.to_datetime(key, format='%Y%m%d')
to_datetime(k) ==
  toordinal(k[1] * 1000 + k[2] * 100 + k[3] * 10 + k[4],
            k[5] * 10 + k[6], k[7] * 10 + k[8])

(* ------------------------------------------------------------- the fetch *)
parameter == label_to_parameter[parameter_label]

Truthy(x) == x # <<>>

HasClick == Truthy(map_data) /\ Truthy(map_data[1].last_clicked)

lat == map_data[1].last_clicked[1].lat
lon == map_data[1].last_clicked[1].lng

\* the URL with the two coordinates exchanged
url_swapped(la, lo, p, t) ==
  NASA_POWER_API \o "?parameters=" \o p \o "&community=ag&longitude="
  \o FloatStr(la) \o "&latitude=" \o FloatStr(lo) \o "&start=" \o start_date
  \o "&end=" \o strftime(t) \o "&format=JSON"

url(la, lo, p, t) ==
  NASA_POWER_API \o "?parameters=" \o p \o "&community=ag&longitude="
  \o FloatStr(lo) \o "&latitude=" \o FloatStr(la) \o "&start=" \o start_date
  \o "&end=" \o strftime(t) \o "&format=JSON"

Element(kind, text) ==
  [kind |-> kind, text |-> text, xs |-> {}, ys |-> <<>>, ylim |-> <<>>,
   hlines |-> {}]

Outcome(raised, ret, errors) == [raised |-> raised, ret |-> ret, errors |-> errors]

\* fetch_nasa_power_data without the test of the status code
fetch_ignoring_status(r) ==
  IF r.raised THEN Outcome("ConnectionError", None, <<>>)
  ELSE
    CASE r.body.kind = "invalid" -> Outcome("JSONDecodeError", None, <<>>)
      [] r.body.kind = "scalar" -> Outcome("TypeError", None, <<>>)
      [] r.body.kind = "array" ->
           IF r.body.hasProperties THEN Outcome("TypeError", None, <<>>)
           ELSE Outcome("", None, <<Element("error", MSG_NO_PARAMETER)>>)
      [] OTHER ->
           IF r.body.hasProperties /\ r.body.hasParameter
           THEN Outcome("", <<r.body.parameter>>, <<>>)
           ELSE Outcome("", None, <<Element("error", MSG_NO_PARAMETER)>>)

\* what fetch_nasa_power_data does with the response r of requests.get:
\* the exception that escapes it ("" if none), the value it returns
\* (None, or <<dict>>) and the st.error messages it emits
fetch_nasa_power_data(r) ==
  IF r.raised THEN Outcome("ConnectionError", None, <<>>)
  ELSE IF r.status = HTTP_OK THEN
    CASE r.body.kind = "invalid" -> Outcome("JSONDecodeError", None, <<>>)
      [] r.body.kind = "scalar" -> Outcome("TypeError", None, <<>>)
      [] r.body.kind = "array" ->
           IF r.body.hasProperties THEN Outcome("TypeError", None, <<>>)
           ELSE Outcome("", None, <<Element("error", MSG_NO_PARAMETER)>>)
      [] OTHER ->
           IF r.body.hasProperties /\ r.body.hasParameter
           THEN Outcome("", <<r.body.parameter>>, <<>>)
           ELSE Outcome("", None, <<Element("error", MSG_NO_PARAMETER)>>)
  ELSE Outcome("", None, <<Element("error", MSG_NO_AREA)>>)

(* ----------------------------------------------------------- data frames *)
\* pd.DataFrame.from_dict(d): one row per key of any series
from_dict(d) ==
  [k \in UNION {DOMAIN d[c] : c \in DOMAIN d} |->
     [c \in DOMAIN d |-> IF k \in DOMAIN d[c] THEN <<d[c][k]>> ELSE NaN]]

\* a replace applied to the selected column only
replace_selected_only(frame, v) ==
  [k \in DOMAIN frame |->
     [c \in DOMAIN frame[k] |->
        IF frame[k][c] = <<v>> /\ c = label_to_parameter[parameter_label]
        THEN NaN ELSE frame[k][c]]]

\* DataFrame.replace(v, np.nan)
replace(frame, v) ==
  [k \in DOMAIN frame |->
     [c \in DOMAIN frame[k] |-> IF frame[k][c] = <<v>> THEN NaN ELSE frame[k][c]]]

\* df.index = pd.to_datetime(df.index, format='%Y%m%d')
set_index(frame) ==
  [t \in {to_datetime(k) : k \in DOMAIN frame} |->
     frame[CHOOSE k \in DOMAIN frame : to_datetime(k) = t]]

make_df(d) == set_index(replace(from_dict(d), sentinel))

\* df[[parameter]].reset_index() with columns ds, y: ds -> y
df_prophet(frame, p) == [t \in DOMAIN frame |-> frame[t][p]]

Max(S) == CHOOSE x \in S : \A z \in S : z <= x
Min(S) == CHOOSE x \in S : \A z \in S : x <= z

RECURSIVE SortedSeq(_)
SortedSeq(S) == IF S = {} THEN <<>> ELSE <<Min(S)>> \o SortedSeq(S \ {Min(S)})

(* -------------------------------------------------------------- Prophet *)
\* Prophet.fit raises ValueError on fewer than 2 non-NaN rows
fit_raises(dfp) == Cardinality({t \in DOMAIN dfp : dfp[t] # NaN}) < 2

\* the dates Prophet.fit keeps as history_dates: every ds of the input
history_dates(dfp) == DOMAIN dfp

\* model.make_future_dataframe(periods): history followed by the next days
make_future_dataframe(dfp, n) ==
  LET last == Max(history_dates(dfp))
  IN SortedSeq(history_dates(dfp)) \o [i \in 1..n |-> last + i]

IsSorted(s) == \A i \in 1..(Len(s) - 1) : s[i] <= s[i + 1]

\* model.predict(future): one row per row of future, sorted by ds
predict(future) ==
  IF IsSorted(future) THEN future
  ELSE SortedSeq({future[i] : i \in 1..Len(future)})

\* DataFrame.tail(n)
tail(s, n) == IF Len(s) <= n THEN s ELSE SubSeq(s, Len(s) - n + 1, Len(s))

\* a zoom that keeps one row too few
forecast_zoomed_short(f) == tail(f, tail_rows - 1)

forecast_zoomed(f) == tail(f, tail_rows)

historical_forecast(f, dfp) == SelectSeq(f, LAMBDA ds : ds <= Max(DOMAIN dfp))

Range(s) == {s[i] : i \in 1..Len(s)}

(* --------------------------------------------------------------- charts *)
Chart(title, xs, ys, ylim, hlines) ==
  [kind |-> "pyplot", text |-> title, xs |-> xs, ys |-> ys, ylim |-> ylim,
   hlines |-> hlines]

Thresholds == {"0.2", "0.6"}

fig(frame, p) ==
  Chart("Soil Moisture Historical Analysis", DOMAIN frame,
        [t \in DOMAIN frame |-> frame[t][p]], <<0, 1>>, Thresholds)

\* the forecast chart without its y-range
fig2_unbounded(f) ==
  Chart("Soil Moisture Prediction", Range(forecast_zoomed(f)), <<>>, <<>>,
        Thresholds)

fig2(f) ==
  Chart("Soil Moisture Prediction", Range(forecast_zoomed(f)), <<>>, <<0, 1>>,
        Thresholds)

fig3(f, dfp) ==
  Chart("Historical Trend Component from Prophet Model",
        Range(historical_forecast(f, dfp)), <<>>, <<0, 1>>, Thresholds)

fig4 == Chart("Soil Moisture's Seasonal Cycles", 1..365, <<>>, <<>>, {})

(* -------------------------------------------------------------- actions *)
Init ==
  /\ map_data \in {None, <<[last_clicked |-> None]>>}
  /\ parameter_label = "0 - 5 cm"
  /\ now \in Clock
  /\ pc = "top"
  /\ page = <<>>
  /\ gets = <<>>
  /\ response = NoResponse
  /\ data = None
  /\ df = <<>>
  /\ forecast = <<>>
  /\ exc = ""

Finished == pc \in {"done", "crashed"}

Later(t) == {u \in Clock : toordinal(u.y, u.m, u.d) >= toordinal(t.y, t.m, t.d)}

\* a user interaction re-runs the script with a fresh namespace
Rerun(md, label) ==
  /\ Finished
  /\ map_data' = md
  /\ parameter_label' = label
  /\ now' \in Later(now)
  /\ pc' = "top"
  /\ page' = <<>>
  /\ gets' = <<>>
  /\ response' = NoResponse
  /\ data' = None
  /\ df' = <<>>
  /\ forecast' = <<>>
  /\ exc' = ""

Click(c) == Rerun(<<[last_clicked |-> <<c>>]>>, parameter_label)

Select(label) == Rerun(map_data, label)

\* lines 14-41, the test of line 64 and the else branch of lines 182-183
Top ==
  /\ pc = "top"
  /\ IF HasClick
     THEN /\ page' = <<Element("title", "Global Soil Moisture Analysis"),
                       Element("write", "### Select a Location on the Map")>>
          /\ pc' = "fetch"
     ELSE /\ page' = <<Element("title", "Global Soil Moisture Analysis"),
                       Element("write", "### Select a Location on the Map"),
                       Element("info", MSG_PROMPT)>>
          /\ pc' = "done"
  /\ UNCHANGED <<map_data, parameter_label, now, gets, response, data, df,
                 forecast, exc>>

\* a fetch that asks again when the first answer gives no result
FetchWithRetry ==
  /\ pc = "fetch"
  /\ \E r \in Responses :
       LET o == fetch_nasa_power_data(r)
           u == url(lat, lon, parameter, now)
       IN /\ response' = r
          /\ gets' = IF o.ret = None THEN gets \o <<u, u>> ELSE Append(gets, u)
          /\ page' = page \o o.errors
          /\ data' = o.ret
          /\ exc' = o.raised
          /\ pc' = IF o.raised # "" THEN "crashed" ELSE "analyse"
  /\ UNCHANGED <<map_data, parameter_label, now, df, forecast>>

\* lines 65-70: the call of fetch_nasa_power_data
Fetch ==
  /\ pc = "fetch"
  /\ \E r \in Responses :
       LET o == fetch_nasa_power_data(r)
       IN /\ response' = r
          /\ gets' = Append(gets, url(lat, lon, parameter, now))
          /\ page' = page \o o.errors
          /\ data' = o.ret
          /\ exc' = o.raised
          /\ pc' = IF o.raised # "" THEN "crashed" ELSE "analyse"
  /\ UNCHANGED <<map_data, parameter_label, now, df, forecast>>

\* the analysis with the prompt of the else branch attached to the inner test
AnalyseWithPrompt ==
  /\ pc = "analyse"
  /\ IF Truthy(data) /\ Truthy(data[1]) /\ parameter \in DOMAIN data[1]
     THEN /\ df' = make_df(data[1])
          /\ page' = page \o <<Element("success", MSG_SUCCESS),
                               fig(make_df(data[1]), parameter)>>
          /\ pc' = "fit"
     ELSE /\ pc' = "done"
          /\ page' = Append(page, Element("info", MSG_PROMPT))
          /\ UNCHANGED df
  /\ UNCHANGED <<map_data, parameter_label, now, gets, response, data,
                 forecast, exc>>

\* lines 72-106
Analyse ==
  /\ pc = "analyse"
  /\ IF Truthy(data) /\ Truthy(data[1]) /\ parameter \in DOMAIN data[1]
     THEN /\ df' = make_df(data[1])
          /\ page' = page \o <<Element("success", MSG_SUCCESS),
                               fig(make_df(data[1]), parameter)>>
          /\ pc' = "fit"
     ELSE /\ pc' = "done"
          /\ UNCHANGED <<df, page>>
  /\ UNCHANGED <<map_data, parameter_label, now, gets, response, data,
                 forecast, exc>>

\* lines 108-118
FitPredict ==
  /\ pc = "fit"
  /\ LET dfp == df_prophet(df, parameter)
     IN IF fit_raises(dfp)
        THEN /\ exc' = "ValueError"
             /\ pc' = "crashed"
             /\ UNCHANGED forecast
        ELSE /\ forecast' = predict(make_future_dataframe(dfp, periods))
             /\ pc' = "plot"
             /\ UNCHANGED exc
  /\ UNCHANGED <<map_data, parameter_label, now, page, gets, response, data, df>>

\* lines 120-180
Plot ==
  /\ pc = "plot"
  /\ page' = page \o <<fig2(forecast),
                       fig3(forecast, df_prophet(df, parameter)), fig4>>
  /\ pc' = "done"
  /\ UNCHANGED <<map_data, parameter_label, now, gets, response, data, df,
                 forecast, exc>>

Next ==
  \/ \E c \in Clicks : Click(c)
  \/ \E l \in Labels : Select(l)
  \/ Top
  \/ Fetch
  \/ Analyse
  \/ FitPredict
  \/ Plot

Spec == Init /\ [][Next]_vars

(* ---------------------------------------------------------- properties *)
Shown(kind) == \E i \in 1..Len(page) : page[i].kind = kind

Charts == SelectSeq(page, LAMBDA e : e.kind = "pyplot")

Fetched == pc \in {"analyse", "fit", "plot", "done"} /\ gets # <<>>

\* the series the response holds for the selected code, if it has one
HasSeries ==
  /\ ~response.raised
  /\ response.body.kind = "object"
  /\ response.body.hasProperties /\ response.body.hasParameter
  /\ parameter \in DOMAIN response.body.parameter

RawSeries == response.body.parameter[parameter]

\* C1: after a GET that returned a status other than 200, an error message
\* is on the page, fetch_nasa_power_data returned None, and neither the
\* success message nor any chart is on the page.
C1_NonOkStatus ==
  (Fetched /\ ~response.raised /\ response.status # 200) =>
    /\ Shown("error")
    /\ data = None
    /\ ~Shown("success")
    /\ Len(Charts) = 0
    /\ pc \in {"analyse", "done"}

\* a 422 answer whose body would have been a usable series
C1_Witness ==
  /\ pc = "done" /\ HasClick
  /\ response.status = 422 /\ HasSeries
  /\ Cardinality({k \in DOMAIN RawSeries : RawSeries[k] # -999}) >= 2

\* C2: when a render ends after a 200 answer whose JSON object lacks
\* properties.parameter.<selected code>, no chart is on the page and an
\* error message is.
C2_MissingField ==
  (Finished /\ gets # <<>> /\ ~response.raised /\ response.status = 200
     /\ response.body.kind = "object" /\ ~HasSeries) =>
    (Len(Charts) = 0 /\ Shown("error"))

\* C3: when a render ends after requests.get raised, or after a 200 answer
\* whose body is not JSON or not a JSON object, an error message is on the
\* page and no exception escaped the script.
C3_TransportFailure ==
  (Finished /\ gets # <<>>
     /\ (response.raised
         \/ (response.status = 200
             /\ response.body.kind \in {"invalid", "scalar", "array"}))) =>
    (Shown("error") /\ exc = "")

\* C4: no cell of the table built from the fetched response, in any column,
\* holds -999: a cell is missing where the response had -999 (or no entry)
\* and the response's value elsewhere; the history chart plots exactly the
\* cleaned selected column, and the table handed to the forecaster is it too.
C4_SentinelCleaned ==
  (pc \in {"fit", "plot"} \/ (Finished /\ Shown("success"))) =>
    /\ \A k \in DateKeys : \A c \in Codes :
         LET p == response.body.parameter
             t == toordinal(k[1] * 1000 + k[2] * 100 + k[3] * 10 + k[4],
                            k[5] * 10 + k[6], k[7] * 10 + k[8])
         IN (c \in DOMAIN p /\ k \in DOMAIN p[c]) =>
              /\ t \in DOMAIN df
              /\ df[t][c] = IF p[c][k] = -999 THEN <<>> ELSE <<p[c][k]>>
    /\ \A t \in DOMAIN df : \A c \in DOMAIN df[t] : df[t][c] # <<-999>>
    /\ \A i \in 1..Len(Charts) : \A t \in DOMAIN Charts[i].ys :
         /\ Charts[i].ys[t] # <<-999>>
         /\ Charts[i].ys[t] = df[t][parameter]
    /\ \A t \in DOMAIN df : df_prophet(df, parameter)[t] # <<-999>>

\* all four charts drawn from a response with -999 in the selected series
\* and in another series
C4_Witness ==
  /\ pc = "done" /\ Len(Charts) = 4
  /\ \E k \in DOMAIN RawSeries : RawSeries[k] = -999
  /\ \E c \in DOMAIN response.body.parameter :
       /\ c # parameter
       /\ \E k \in DOMAIN response.body.parameter[c] :
            response.body.parameter[c][k] = -999

C6_NoPartialResults ==
  Finished =>
    /\ Len(Charts) \in {0, 4}
    /\ (exc # "" => (Len(Charts) = 0 /\ ~Shown("success")))

\* C7: the URL requested is the endpoint followed by parameters=<code>,
\* community=ag, longitude=<lng of the click>, latitude=<lat of the click>,
\* start=19810101, end=<today as YYYYMMDD>, format=JSON, the code being the
\* one whose label is selected.
C7_Code ==
  CASE parameter_label = "0 - 5 cm" -> "GWETTOP"
    [] parameter_label = "0 - 100 cm" -> "GWETROOT"
    [] parameter_label = "0 to bedrock" -> "GWETPROF"

C7_Float(t) ==
  CASE t = -335 -> "-33.5" [] t = 1512 -> "151.2" [] t = 0 -> "0.0"
    [] t = -5 -> "-0.5"

C7_Today ==
  CASE now = [y |-> 2024, m |-> 12, d |-> 31] -> "20241231"
    [] now = [y |-> 2025, m |-> 1, d |-> 5] -> "20250105"

C7_UrlTemplate ==
  \A i \in 1..Len(gets) :
    gets[i] = "https://power.larc.nasa.gov/api/temporal/daily/point"
              \o "?parameters=" \o C7_Code \o "&community=ag"
              \o "&longitude=" \o C7_Float(map_data[1].last_clicked[1].lng)
              \o "&latitude=" \o C7_Float(map_data[1].last_clicked[1].lat)
              \o "&start=19810101" \o "&end=" \o C7_Today \o "&format=JSON"

C7_Witness ==
  /\ Len(gets) = 1
  /\ parameter_label = "0 to bedrock"
  /\ map_data[1].last_clicked[1] = [lat |-> 0, lng |-> -5]
  /\ now = [y |-> 2025, m |-> 1, d |-> 5]

\* C8: for a fetched series of n dates that the forecaster accepts, the
\* forecast is the n historical dates in order followed by the 365 days
\* after the last of them; the forecast chart plots exactly those 365 days,
\* the trend chart exactly the n historical dates, and the two are disjoint
\* and together the whole forecast.
C8_History == {to_datetime(k) : k \in DOMAIN RawSeries}

C8_ForecastRange ==
  (pc = "plot" \/ (pc = "done" /\ Shown("success"))) =>
    LET n == Cardinality(DOMAIN RawSeries)
        last == Max(C8_History)
    IN /\ Len(forecast) = n + 365
       /\ \A i \in 1..n : forecast[i] \in C8_History
       /\ \A i \in 1..(n - 1) : forecast[i] < forecast[i + 1]
       /\ \A i \in 1..365 : forecast[n + i] = last + i
       /\ pc = "done" =>
            /\ Cardinality(Charts[2].xs) = 365
            /\ Charts[2].xs = {d \in Range(forecast) : d > last}
            /\ Charts[3].xs = C8_History
            /\ Charts[2].xs \cap Charts[3].xs = {}
            /\ Charts[2].xs \cup Charts[3].xs = Range(forecast)

\* a forecast over a series with a gap whose last date has no value
C8_Witness ==
  /\ pc = "done" /\ Len(Charts) = 4
  /\ Cardinality(DOMAIN RawSeries) = 3
  /\ \E k \in DOMAIN RawSeries :
       RawSeries[k] = -999 /\ to_datetime(k) = Max(C8_History)

\* C9: a render issues one GET when a click is present and none otherwise,
\* whatever the answer was, and starts without any result of an earlier
\* render.
C9_OneGetPerRender ==
  /\ Len(gets) = IF HasClick /\ pc \notin {"top", "fetch"} THEN 1 ELSE 0
  /\ pc \in {"top", "fetch"} =>
       (data = None /\ df = <<>> /\ forecast = <<>> /\ response = NoResponse)

\* a render after a change of the depth selection, whose fetch gave nothing
C9_Witness ==
  /\ pc = "done" /\ HasClick /\ parameter_label = "0 - 100 cm"
  /\ data = None /\ Shown("error") /\ Len(gets) = 1

\* C10: when a render ends the prompt is on the page if and only if no click
\* is present, and the prompt is never on the page together with an error
\* message, the success message or a chart.
C10_PromptIffNoClick ==
  /\ Finished => (Shown("info") <=> ~HasClick)
  /\ Shown("info") =>
       (~HasClick /\ ~Shown("error") /\ ~Shown("success") /\ Len(Charts) = 0)

\* a render with a click whose fetch returned a dictionary without the
\* selected code
C10_Witness ==
  /\ pc = "done" /\ HasClick /\ Truthy(data) /\ ~Shown("success")
  /\ ~Shown("info")

====
